---- MODULE Spec2Model ----
(***************************************************************************)
(* State-machine model of src/dppm_3d.py: the EMA tracker (class EMA), the *)
(* reverse sampling loop (Diffusion.p_sample), the noise schedule          *)
(* (Diffusion.__init__), the shape algebra of UNet3D.forward and the       *)
(* training loop (Trainer.train).                                          *)
(*                                                                         *)
(* Floating-point tensors are modelled by exact numbers: network weights   *)
(* by normalised rationals [n, d], schedule coefficients and samples by    *)
(* fixed-point integers in units of 1/FP.  A tensor object is a cell of    *)
(* the heap `tensors`; a parameter's `.data` is a reference to a cell, so  *)
(* that aliasing of two parameters is a fact of the model.                 *)
(***************************************************************************)
EXTENDS Integers, Sequences, FiniteSets, TLC

(* ------------------------------ bounds -------------------------------- *)
\* largest EMA step counter explored
MaxEmaCalls == 3
\* largest step_start_ema argument explored in the EMA specification
MaxWarmup == 2
\* largest noise_steps a Diffusion is constructed with
MaxNoiseSteps == 4
\* largest depth, height and width of a network input
MaxDim == 17
\* largest batch size of a network input
MaxBatch == 2
\* largest num_epochs, len(train_loader), accumulation_iters and save_every
MaxEpochs == 2
MaxBatches == 3
MaxAccum == 2
MaxSaveEvery == 2

\* the modelled network: its parameters() in enumeration order, and its
\* registered buffers (BatchNorm running statistics); state_dict() holds both
Parameters == <<"conv.weight", "conv.bias">>
Buffers == <<"bn.running_mean">>
NParams == Len(Parameters)
NBuffers == Len(Buffers)
\* the values a live weight can take after an optimizer step
WeightValues == {0, 1}

(* ------------------------- exact arithmetic --------------------------- *)
Abs(a) == IF a < 0 THEN -a ELSE a

RECURSIVE Gcd(_, _)
Gcd(a, b) == IF b = 0 THEN a ELSE Gcd(b, a % b)

\* the rational n/d (d > 0) in lowest terms
Rat(n, d) == LET g == Gcd(Abs(n), d) IN [n |-> n \div g, d |-> d \div g]

RatAdd(a, b) == Rat(a.n * b.d + b.n * a.d, a.d * b.d)

RatMul(a, b) == Rat(a.n * b.n, a.d * b.d)

(* ------------------------------- EMA ---------------------------------- *)
\* EMA(beta=0.95): beta = BetaNum / BetaDen
BetaNum == 19
BetaDen == 20
\* default of ema_step's step_start_ema argument
step_start_ema_default == 2000

Entries == 1 .. (NParams + NBuffers)
ParamIdx == 1 .. NParams
Cells == 1 .. (2 * (NParams + NBuffers) + 1)
\* the reference None
None == 0
Zero == Rat(0, 1)

VARIABLES
    tensors,      \* heap: cell -> value of the tensor stored there
    liveData,     \* unet_model: state_dict entry -> cell of its tensor
    shadowData,   \* ema_model: state_dict entry -> cell of its tensor
    emaStep,      \* EMA.step
    stepStartEma, \* the step_start_ema argument the caller passes
    emaCalls,     \* number of ema_step calls made so far
    emaHist       \* the last operation on the weights, with the values before it

emaVars == <<tensors, liveData, shadowData, emaStep, stepStartEma, emaCalls, emaHist>>

\* the weights as one record, as the operators below pass them around
Weights == [tensors |-> tensors, liveData |-> liveData, shadowData |-> shadowData]

LiveVal(w, e) == w.tensors[w.liveData[e]]
ShadowVal(w, e) == w.tensors[w.shadowData[e]]
LiveVals(w) == [e \in Entries |-> LiveVal(w, e)]
ShadowVals(w) == [e \in Entries |-> ShadowVal(w, e)]

Referenced(w) == {w.liveData[e] : e \in Entries} \cup {w.shadowData[e] : e \in Entries}

\* a tensor nobody references is freed; its cell is reset so that states are canonical
Collect(w) ==
    [w EXCEPT !.tensors = [c \in Cells |-> IF c \in Referenced(w) THEN w.tensors[c] ELSE Zero]]

NewCell(w) ==
    CHOOSE c \in Cells \ Referenced(w) : \A d \in Cells \ Referenced(w) : c <= d

\* copy.deepcopy(self.unet_model): every entry of the copy gets a tensor of its own
DeepCopy(live) == [e \in Entries |-> (NParams + NBuffers) + live[e]]

\* a bug that returns the live tensor itself instead of a new blended tensor
update_average_alias(w, old_weights, new_weights) ==
    [alias |-> TRUE, cell |-> new_weights, val |-> Zero]

\* a bug that blends with the weights swapped: beta * new + (1 - beta) * old
update_average_swapped(w, old_weights, new_weights) ==
    [alias |-> FALSE, cell |-> None,
     val |-> RatAdd(RatMul(w.tensors[new_weights], Rat(BetaNum, BetaDen)),
                    RatMul(Rat(BetaDen - BetaNum, BetaDen), w.tensors[old_weights]))]

\* EMA.update_average: the tensor object returned, either an existing tensor
\* (alias) or a freshly computed one (val)
update_average(w, old_weights, new_weights) ==
    IF old_weights = None
    THEN [alias |-> TRUE, cell |-> new_weights, val |-> Zero]
    ELSE [alias |-> FALSE, cell |-> None,
          val |-> RatAdd(RatMul(w.tensors[old_weights], Rat(BetaNum, BetaDen)),
                         RatMul(Rat(BetaDen - BetaNum, BetaDen), w.tensors[new_weights]))]

\* one iteration of the zip loop: ema_params.data = update_average(...)
UpdateOne(w, k) ==
    LET r == update_average(w, w.shadowData[k], w.liveData[k])
        c == NewCell(w)
    IN  IF r.alias
        THEN Collect([w EXCEPT !.shadowData[k] = r.cell])
        ELSE Collect([w EXCEPT !.tensors[c] = r.val, !.shadowData[k] = c])

RECURSIVE UpdateFrom(_, _)
UpdateFrom(w, k) == IF k > NParams THEN w ELSE UpdateFrom(UpdateOne(w, k), k + 1)

\* EMA.update_model_average: parameters() of both models, zipped in order;
\* buffers are not parameters and are left alone
update_model_average(w) == UpdateFrom(w, 1)

\* a bug that stops the copy before the last parameter
reset_parameters_partial(w) ==
    [w EXCEPT !.tensors = [c \in Cells |->
        IF \E e \in Entries : e < NParams /\ w.shadowData[e] = c
        THEN LiveVal(w, CHOOSE e \in Entries : e < NParams /\ w.shadowData[e] = c)
        ELSE w.tensors[c]]]

\* EMA.reset_parameters: load_state_dict copies every entry of the live
\* state_dict (parameters and buffers) into the shadow model's own tensors
reset_parameters(w) ==
    [w EXCEPT !.tensors = [c \in Cells |->
        IF \E e \in Entries : w.shadowData[e] = c
        THEN LiveVal(w, CHOOSE e \in Entries : w.shadowData[e] = c)
        ELSE w.tensors[c]]]

\* a bug that forgets the increment on the warm-start branch
ema_step_noinc(w, step, step_start_ema) ==
    IF step < step_start_ema
    THEN [w |-> reset_parameters(w), step |-> step, branch |-> "copy"]
    ELSE [w |-> update_model_average(w), step |-> step + 1, branch |-> "blend"]

\* EMA.ema_step
ema_step(w, step, step_start_ema) ==
    IF step < step_start_ema
    THEN [w |-> reset_parameters(w), step |-> step + 1, branch |-> "copy"]
    ELSE [w |-> update_model_average(w), step |-> step + 1, branch |-> "blend"]

\* optimizer.step(): Adam rewrites every parameter tensor in place
optimizer_step(w, f) ==
    [w EXCEPT !.tensors = [c \in Cells |->
        IF \E p \in ParamIdx : w.liveData[p] = c
        THEN Rat(f[CHOOSE p \in ParamIdx : w.liveData[p] = c], 1)
        ELSE w.tensors[c]]]

\* a training-mode forward pass of the network whose entries are data
\* rewrites that network's BatchNorm running statistics in place
forward_buffers_of(w, data, f) ==
    [w EXCEPT !.tensors = [c \in Cells |->
        IF \E b \in Entries \ ParamIdx : data[b] = c
        THEN Rat(f[CHOOSE b \in Entries \ ParamIdx : data[b] = c], 1)
        ELSE w.tensors[c]]]

\* unet_model(x, t) in training mode
forward_buffers(w, f) == forward_buffers_of(w, w.liveData, f)

\* ema_model(x, t) in training mode
forward_buffers_ema(w, f) == forward_buffers_of(w, w.shadowData, f)

NoHist == [op |-> "none", branch |-> "none", stepBefore |-> 0,
           shadowBefore |-> [e \in Entries |-> Zero], liveAt |-> [e \in Entries |-> Zero]]

\* Trainer.__init__: unet_model, then ema_model = copy.deepcopy(unet_model), EMA.step = 0
InitWeights(f, sse) ==
    /\ liveData = [e \in Entries |-> e]
    /\ shadowData = DeepCopy(liveData)
    /\ tensors = [c \in Cells |->
                    IF c \in Entries THEN Rat(f[c], 1)
                    ELSE IF c - (NParams + NBuffers) \in Entries
                         THEN Rat(f[c - (NParams + NBuffers)], 1)
                         ELSE Zero]
    /\ emaStep = 0
    /\ emaCalls = 0
    /\ stepStartEma = sse
    /\ emaHist = NoHist

SetWeights(w) ==
    /\ tensors' = w.tensors
    /\ liveData' = w.liveData
    /\ shadowData' = w.shadowData

\* the caller runs self.ema.ema_step(ema_model, model, step_start_ema)
DoEmaStep(sse) ==
    LET r == ema_step(Weights, emaStep, sse)
    IN  /\ SetWeights(r.w)
        /\ emaStep' = r.step
        /\ emaCalls' = emaCalls + 1
        /\ emaHist' = [op |-> "ema", branch |-> r.branch, stepBefore |-> emaStep,
                       shadowBefore |-> ShadowVals(Weights), liveAt |-> LiveVals(Weights)]

DoOptimizerStep(f) ==
    /\ SetWeights(optimizer_step(Weights, f))
    /\ emaHist' = [op |-> "opt", branch |-> "none", stepBefore |-> emaStep,
                   shadowBefore |-> ShadowVals(Weights), liveAt |-> LiveVals(Weights)]

DoForwardBuffers(f) ==
    /\ SetWeights(forward_buffers(Weights, f))
    /\ emaHist' = [op |-> "fwd", branch |-> "none", stepBefore |-> emaStep,
                   shadowBefore |-> ShadowVals(Weights), liveAt |-> LiveVals(Weights)]

DoForwardBuffersEma(f) ==
    /\ SetWeights(forward_buffers_ema(Weights, f))
    /\ emaHist' = [op |-> "fwd_ema", branch |-> "none", stepBefore |-> emaStep,
                   shadowBefore |-> ShadowVals(Weights), liveAt |-> LiveVals(Weights)]

(* ------------------------- fixed-point numbers ------------------------ *)
\* a real r is the integer r * FP (rounded down)
FP == 100 * 100

RECURSIVE SqrtSearch(_, _, _)
SqrtSearch(n, lo, hi) ==
    IF lo >= hi THEN lo
    ELSE LET mid == (lo + hi + 1) \div 2
         IN  IF mid * mid <= n THEN SqrtSearch(n, mid, hi) ELSE SqrtSearch(n, lo, mid - 1)

\* torch.sqrt on a fixed-point number in [0, 1]
FxSqrt(a) == SqrtSearch(a * FP, 0, FP)

Clamp(v, lo, hi) == IF v < lo THEN lo ELSE IF v > hi THEN hi ELSE v

(* ----------------------------- Diffusion ------------------------------ *)
\* Diffusion.__init__ defaults beta_start = 1e-4, beta_end = 0.02
beta_start_default == FP \div 10000
beta_end_default == (2 * FP) \div 100
\* the values beta_start and beta_end are drawn from
BetaChoices == {beta_start_default, FP \div 100, beta_end_default}
\* Diffusion img_size (Trainer image_size) and p_sample's scale_factor
img_size_default == 64
scale_factor_default == 2

\* torch.linspace(start, end, steps)[i], i zero-based: stepping up from start
\* in the first half and down from end in the second half
LinspaceAt(start, end, steps, i) ==
    IF steps = 1 THEN start
    ELSE IF 2 * i < steps
         THEN start + (i * (end - start)) \div (steps - 1)
         ELSE end - ((steps - 1 - i) * (end - start)) \div (steps - 1)

\* Diffusion.linear_noise_schedule: torch.linspace raises for a negative
\* number of steps and returns an empty tensor for zero steps
linear_noise_schedule(beta_start, beta_end, noise_steps) ==
    IF noise_steps < 0
    THEN [error |-> TRUE, beta |-> <<>>]
    ELSE [error |-> FALSE,
          beta |-> [k \in 1 .. noise_steps |->
                      LinspaceAt(beta_start, beta_end, noise_steps, k - 1)]]

\* torch.cumprod(alpha, dim=0)
RECURSIVE CumProdAt(_, _)
CumProdAt(alpha, k) ==
    IF k = 1 THEN alpha[1] ELSE (CumProdAt(alpha, k - 1) * alpha[k]) \div FP

NoDiffusion ==
    [status |-> "none", noise_steps |-> 0, beta_start |-> 0, beta_end |-> 0,
     beta |-> <<>>, sqrt_alpha_hat |-> <<>>, sqrt_one_minus_alpha_hat |-> <<>>,
     sqrt_alpha |-> <<>>, std_beta |-> <<>>]

\* Diffusion.__init__: the object constructed, or status "error" when the
\* constructor raises.  No argument is validated: the only failure is the one
\* torch.linspace raises.  Tensor index t is sequence index t + 1.
DiffusionInit(noise_steps, beta_start, beta_end) ==
    LET sched == linear_noise_schedule(beta_start, beta_end, noise_steps)
        beta == sched.beta
        alpha == [k \in DOMAIN beta |-> FP - beta[k]]
        alpha_hat == [k \in DOMAIN beta |-> CumProdAt(alpha, k)]
    IN  IF sched.error
        THEN [NoDiffusion EXCEPT !.status = "error"]
        ELSE [status |-> "built", noise_steps |-> noise_steps,
              beta_start |-> beta_start, beta_end |-> beta_end,
              beta |-> beta,
              sqrt_alpha_hat |-> [k \in DOMAIN beta |-> FxSqrt(alpha_hat[k])],
              sqrt_one_minus_alpha_hat |->
                  [k \in DOMAIN beta |-> FxSqrt(FP - alpha_hat[k])],
              sqrt_alpha |-> [k \in DOMAIN beta |-> FxSqrt(alpha[k])],
              std_beta |-> [k \in DOMAIN beta |-> FxSqrt(beta[k])]]

\* the draws of torch.randn in p_sample and the values a network predicts
NoiseDraws == {-FP, FP}
PredDraws == {0, FP}
Models == {"live", "ema"}

VARIABLES
    diffusion,    \* the Diffusion object (self.diffusion), or why there is none
    training,     \* nn.Module.training of unet_model ("live") and ema_model ("ema")
    gradEnabled,  \* torch.is_grad_enabled()
    ps            \* the running p_sample call: position, locals and what it did

diffVars == <<diffusion, training, gradEnabled, ps>>

NoSample ==
    [pc |-> "idle", model |-> "none", k |-> 0, x0 |-> 0, x |-> 0,
     evals |-> <<>>, images |-> [pixel |-> 0, size |-> 0]]

\* a bug that runs the loop down to timestep 0: reversed(range(0, noise_steps))
LoopTimestepsWithZero(noise_steps) ==
    [k \in 1 .. (IF noise_steps >= 0 THEN noise_steps ELSE 0) |-> noise_steps - k]

\* reversed(range(1, self.noise_steps)): noise_steps - 1, ..., 1
LoopTimesteps(noise_steps) ==
    [k \in 1 .. (IF noise_steps >= 1 THEN noise_steps - 1 ELSE 0) |-> noise_steps - k]

\* a bug that adds noise at the last step too
NoiseSourceAlways(i) == IF i > 0 THEN "randn" ELSE "zeros"

\* random_noise = torch.randn_like(x) if i > 1 else torch.zeros_like(x)
NoiseSource(i) == IF i > 1 THEN "randn" ELSE "zeros"

\* the update of x in the loop body, at timestep i with the network's
\* prediction pred and the noise random_noise
ReverseStep(d, i, x, pred, random_noise) ==
    LET sqrt_alpha_t == d.sqrt_alpha[i + 1]
        beta_t == d.beta[i + 1]
        sqrt_one_minus_alpha_hat_t == d.sqrt_one_minus_alpha_hat[i + 1]
        epsilon_t == d.std_beta[i + 1]
    IN  ((x - (beta_t * pred) \div sqrt_one_minus_alpha_hat_t) * FP) \div sqrt_alpha_t
            + (epsilon_t * random_noise) \div FP

\* ((x.clamp(-1, 1) + 1) * 127.5).type(torch.uint8), then F.interpolate
ToImages(x, scale_factor) ==
    [pixel |-> ((Clamp(x, -FP, FP) + FP) * 1275) \div (10 * FP),
     size |-> img_size_default * scale_factor]

\* p_sample up to the loop: eps_model.eval(), enter torch.no_grad(), x = randn
StartSample(m) ==
    /\ diffusion.status = "built"
    /\ \E x0 \in NoiseDraws :
          ps' = [NoSample EXCEPT !.pc = "loop", !.model = m, !.k = 1, !.x0 = x0, !.x = x0]
    /\ training' = [training EXCEPT ![m] = FALSE]
    /\ gradEnabled' = FALSE
    /\ UNCHANGED diffusion

\* a call of p_sample from outside the training loop
PSampleBegin(m) == ps.pc = "idle" /\ StartSample(m)

\* the loop body at position p.k of a run p, with the network's prediction
\* pred and the value draw that torch.randn_like would return
LoopBody(p, pred, draw) ==
    LET i == LoopTimesteps(diffusion.noise_steps)[p.k]
        src == NoiseSource(i)
        noise == IF src = "randn" THEN draw ELSE 0
        xnew == ReverseStep(diffusion, i, p.x, pred, noise)
    IN  [p EXCEPT !.k = p.k + 1,
                  !.x = xnew,
                  !.evals = Append(p.evals,
                      [t |-> i, x_in |-> p.x, raised |-> FALSE,
                       noise_src |-> src, noise |-> noise, x_out |-> xnew])]

\* one iteration of the loop whose network evaluation returns a value of preds
PSampleStepWith(preds) ==
    /\ ps.pc = "loop"
    /\ ps.k <= Len(LoopTimesteps(diffusion.noise_steps))
    /\ \E pred \in preds, draw \in NoiseDraws : ps' = LoopBody(ps, pred, draw)
    /\ UNCHANGED <<diffusion, training, gradEnabled>>

\* one iteration of the loop whose network evaluation returns
PSampleStep == PSampleStepWith(PredDraws)

\* one iteration of the loop whose network evaluation raises: the with
\* block restores the grad mode on the way out, nothing restores the
\* training mode, and the exception leaves p_sample
PSampleRaise ==
    /\ ps.pc = "loop"
    /\ ps.k <= Len(LoopTimesteps(diffusion.noise_steps))
    /\ LET i == LoopTimesteps(diffusion.noise_steps)[ps.k]
       IN  ps' = [ps EXCEPT
                    !.pc = "raised",
                    !.evals = Append(ps.evals,
                        [t |-> i, x_in |-> ps.x, raised |-> TRUE,
                         noise_src |-> "none", noise |-> 0, x_out |-> ps.x])]
    /\ gradEnabled' = TRUE
    /\ UNCHANGED <<diffusion, training>>

\* after the loop: leave torch.no_grad(), eps_model.train(), clamp and scale
PSampleEnd ==
    /\ ps.pc = "loop"
    /\ ps.k > Len(LoopTimesteps(diffusion.noise_steps))
    /\ ps' = [ps EXCEPT !.pc = "done", !.images = ToImages(ps.x, scale_factor_default)]
    /\ training' = [training EXCEPT ![ps.model] = TRUE]
    /\ gradEnabled' = TRUE
    /\ UNCHANGED diffusion

\* Trainer.__init__: unet_model is in training mode, ema_model was put in
\* evaluation mode by .eval()
InitModes ==
    /\ training = [m \in Models |-> m = "live"]
    /\ gradEnabled = TRUE
    /\ ps = NoSample

(* ------------------------------- UNet3D ------------------------------- *)
\* UNet3D.__init__ defaults: in_channels, out_channels, noise_steps, time_dim
in_channels_default == 3
out_channels_default == 3
unet_noise_steps_default == 1000
time_dim_default == 256
\* the timestep Tester.test_unet passes
test_timestep == 500

\* the result of a layer: a tensor shape, or the layer raised; bn counts
\* the BatchNorm3d layers that have rewritten their running statistics
Shape(sh) == [ok |-> TRUE, shape |-> sh, bn |-> 0]
Raised == [ok |-> FALSE, shape |-> <<>>, bn |-> 0]
\* the exception of a layer leaves the layers after it unevaluated
RaisedAfter(r) == [Raised EXCEPT !.bn = r.bn]

\* the number of values per channel BatchNorm3d sees: batch * depth * height * width
ValuesPerChannel(sh) == sh[1] * sh[3] * sh[4] * sh[5]

\* nn.Conv3d(in_channels, out_channels, kernel_size=3, padding=1) followed
\* by nn.BatchNorm3d, which accepts 5-D input only and, in training mode,
\* needs more than one value per channel; sizes are kept
ConvBn3d(r, in_channels, out_channels, train) ==
    IF ~r.ok \/ Len(r.shape) # 5 THEN RaisedAfter(r)
    ELSE IF r.shape[2] # in_channels THEN RaisedAfter(r)
    ELSE IF train /\ ValuesPerChannel(r.shape) = 1 THEN RaisedAfter(r)
    ELSE [ok |-> TRUE, shape |-> [r.shape EXCEPT ![2] = out_channels],
          bn |-> r.bn + (IF train THEN 1 ELSE 0)]

\* DoubleConv3D.forward
DoubleConv3D(r, in_channels, out_channels, train) ==
    ConvBn3d(ConvBn3d(r, in_channels, out_channels, train),
             out_channels, out_channels, train)

\* nn.MaxPool3d(2) on a 5-D or an unbatched 4-D input: the last three
\* sizes are halved, rounding down; an empty output raises
MaxPool3d(r) ==
    IF ~r.ok \/ Len(r.shape) \notin {4, 5} THEN RaisedAfter(r)
    ELSE LET n == Len(r.shape)
         IN  IF \E a \in (n - 2) .. n : r.shape[a] \div 2 = 0 THEN RaisedAfter(r)
             ELSE [r EXCEPT !.shape = [a \in 1 .. n |->
                      IF a >= n - 2 THEN r.shape[a] \div 2 ELSE r.shape[a]]]

\* Down3D.forward
Down3D(r, in_channels, out_channels, train) ==
    DoubleConv3D(MaxPool3d(r), in_channels, out_channels, train)

\* nn.ConvTranspose3d(in_channels, in_channels // 2, kernel_size=2, stride=2)
\* on a 5-D or an unbatched 4-D input
ConvTranspose3d(r, in_channels) ==
    IF ~r.ok \/ Len(r.shape) \notin {4, 5} THEN RaisedAfter(r)
    ELSE LET n == Len(r.shape)
         IN  IF r.shape[n - 3] # in_channels THEN RaisedAfter(r)
             ELSE [r EXCEPT !.shape = [a \in 1 .. n |->
                      IF a = n - 3 THEN in_channels \div 2
                      ELSE IF a >= n - 2 THEN 2 * r.shape[a] ELSE r.shape[a]]]

\* nn.functional.pad of the three sizes by (diff // 2, diff - diff // 2)
PadTo(r1, r2) ==
    [r1 EXCEPT !.shape = [a \in 1 .. 5 |->
             IF a >= 3
             THEN LET diff == r2.shape[a] - r1.shape[a]
                  IN  r1.shape[a] + diff \div 2 + (diff - diff \div 2)
             ELSE r1.shape[a]]]

\* torch.cat([x2, x1], dim=1): every size but the channels must agree
Cat(r2, r1) ==
    IF \E a \in {1, 3, 4, 5} : r2.shape[a] # r1.shape[a] THEN RaisedAfter(r1)
    ELSE [r1 EXCEPT !.shape = [r2.shape EXCEPT ![2] = r2.shape[2] + r1.shape[2]]]

\* Up3D.forward(x1, x2): x2.size()[4] and x1.size()[4] need 5-D tensors
Up3D(r1, r2, in_channels, out_channels, train) ==
    LET up == ConvTranspose3d(r1, in_channels)
    IN  IF ~up.ok \/ ~r2.ok \/ Len(up.shape) # 5 \/ Len(r2.shape) # 5
        THEN RaisedAfter(up)
        ELSE DoubleConv3D(Cat(r2, PadTo(up, r2)), in_channels, out_channels, train)

\* nn.Conv3d(in_channels=64, out_channels=out_channels, kernel_size=1)
OutConv(r, in_channels, out_channels) ==
    IF ~r.ok \/ Len(r.shape) \notin {4, 5} THEN RaisedAfter(r)
    ELSE IF r.shape[Len(r.shape) - 3] # in_channels THEN RaisedAfter(r)
    ELSE [r EXCEPT !.shape = [r.shape EXCEPT ![Len(r.shape) - 3] = out_channels]]

\* the shape of the buffer PositionalEncoding.__init__ registers:
\* torch.zeros(time_dim, max_len, embedding_dim)
pos_encoding_shape(time_dim, max_len, embedding_dim) ==
    <<time_dim, max_len, embedding_dim>>

\* PositionalEncoding: the buffer is torch.zeros(time_dim, max_len,
\* embedding_dim), and forward indexes its first dimension with t; an index
\* outside it raises.  squeeze(1) drops the second dimension only if it is 1.
PositionalEncoding(batch, t, time_dim, max_len, embedding_dim) ==
    IF t >= time_dim \/ t < -time_dim THEN Raised
    ELSE IF max_len = 1 THEN Shape(<<batch, embedding_dim>>)
    ELSE Shape(<<batch, max_len, embedding_dim>>)

\* self.pos_encoding of UNet3D(): PositionalEncoding(time_dim=time_dim,
\* embedding_dim=time_dim, max_len=noise_steps), applied to t
UNet3DPosEncoding(batch, t) ==
    PositionalEncoding(batch, t, time_dim_default, unet_noise_steps_default,
                       time_dim_default)

\* the buffer of that module
UNet3DPosEncodingShape ==
    pos_encoding_shape(time_dim_default, unet_noise_steps_default, time_dim_default)

\* UNet3D.forward(x, t) of UNet3D() in training or evaluation mode: the
\* time embedding is looked up first (and then unused), then encoder,
\* bottleneck, decoder and the output head
UNet3DForward(x, t, train) ==
    LET emb == UNet3DPosEncoding(x[1], t)
        x1 == DoubleConv3D(Shape(x), in_channels_default, 64, train)
        x2 == Down3D(x1, 64, 128, train)
        x3 == Down3D(x2, 128, 256, train)
        x4 == Down3D(x3, 256, 256, train)
        bn == DoubleConv3D(x4, 256, 512, train)
        u1 == Up3D(bn, x3, 512, 256, train)
        u2 == Up3D(u1, x2, 256, 128, train)
        u3 == Up3D(u2, x1, 128, 64, train)
    IN  IF ~emb.ok THEN Raised ELSE OutConv(u3, 64, out_channels_default)

VARIABLES
    unet          \* one call of UNet3D.forward: the network, the arguments, the result

NoCall ==
    [model |-> "live", x |-> <<>>, t |-> 0, called |-> FALSE, out |-> Raised,
     emb |-> Raised]

(* ------------- calls made outside the training loop's state ------------ *)
VARIABLES
    ckpt,         \* Utils: the checkpoint file, the objects saved and loaded, the last call
    qs,           \* one sample_timesteps / q_sample pair: its arguments and results
    twin          \* a second p_sample run, started from the same initial x as ps

callVars == <<unet, ckpt, qs, twin>>

\* the keys of a checkpoint dictionary and the objects whose state they hold
RequiredKeys == {"epoch", "state_dict"}
OptionalKeys == {"optimizer", "scheduler", "grad_scaler"}
StateKeys == {"state_dict"} \cup OptionalKeys

\* no file has been written, the objects are as constructed, no call was made
NoFile == [exists |-> FALSE, keys |-> {}, epoch |-> 0, state |-> [k \in StateKeys |-> 0]]
NoArgs == [k \in OptionalKeys |-> FALSE]
NoUtilsCall ==
    [op |-> "none", args |-> NoArgs, ep |-> 0, error |-> "none", returned |-> -1,
     before |-> [k \in StateKeys |-> 0]]
NoCheckpoint == [file |-> NoFile, objs |-> [k \in StateKeys |-> 0], call |-> NoUtilsCall]

NoNoising ==
    [pc |-> "idle", batch_size |-> 0, t |-> <<>>, x |-> <<>>, epsilon |-> <<>>,
     x_t |-> <<>>]

NoOtherCalls ==
    /\ ckpt = NoCheckpoint
    /\ qs = NoNoising
    /\ twin = NoSample

(* ------------------------------- Trainer ------------------------------ *)
\* low bound of torch.randint in sample_timesteps
sample_timesteps_low == 1
\* Trainer.__init__ and Trainer.sample default: sample_count
sample_count_default == 1

\* a bug that draws from the closed range of the docstring, [1, noise_steps]
sample_timesteps_inclusive(noise_steps, batch_size) ==
    IF noise_steps + 1 <= sample_timesteps_low \/ batch_size < 0
    THEN [ok |-> FALSE, draws |-> {}]
    ELSE [ok |-> TRUE,
          draws |-> [1 .. batch_size -> sample_timesteps_low .. noise_steps]]

\* torch.randint(low=1, high=self.noise_steps, size=(batch_size,)): the
\* tensors it can return; it raises when high <= low
sample_timesteps(noise_steps, batch_size) ==
    IF noise_steps <= sample_timesteps_low \/ batch_size < 0
    THEN [ok |-> FALSE, draws |-> {}]
    ELSE [ok |-> TRUE,
          draws |-> [1 .. batch_size -> sample_timesteps_low .. (noise_steps - 1)]]

VARIABLES
    tcfg,         \* Trainer arguments: num_epochs, accumulation_iters, save_every; len(train_loader)
    epoch,        \* the epoch variable of train
    batch_idx,    \* the batch_idx variable of train
    tpc,          \* position of the Trainer: built, in train or in a sample call from outside
    gradBuf,      \* .grad of the parameters: the batches whose gradients it sums, <<>> for None
    accLoss,      \* accumulated_minibatch_loss, as the number of losses summed in it
    totalLoss,    \* total_loss, as the number of losses summed in it
    optSteps,     \* calls of grad_scaler.step(optimizer), with the gradients of the last one
    schedSteps,   \* calls of scheduler.step()
    events,       \* what train did in the current batch, in order (none between epochs)
    saved         \* the checkpoint files written for the current batch

trainVars == <<tcfg, epoch, batch_idx, tpc, gradBuf, accLoss, totalLoss, optSteps,
               schedSteps, events, saved>>

NoEvents == [epoch |-> 0, batch |-> -1, log |-> <<>>]

\* a bug that steps the optimizer in every batch
IsAccumulationBoundaryAlways(idx, accumulation_iters) == idx >= 0

\* a bug that tests the index instead of the count of batches seen
IsAccumulationBoundaryIdx(idx, accumulation_iters) == idx % accumulation_iters = 0

\* (batch_idx + 1) % self.accumulation_iters == 0
IsAccumulationBoundary(idx, accumulation_iters) == (idx + 1) % accumulation_iters = 0

\* a bug that aligns saving with the count of batches seen
IsSaveBatchCount(idx, save_every) == (idx + 1) % save_every = 0

\* not batch_idx % self.save_every
IsSaveBatch(idx, save_every) == idx % save_every = 0

\* Utils.save_checkpoint: the dictionary written, or error when it raises
\* (grad_scaler.state_dict() is read under `if scheduler`)
save_checkpoint(ep, model, optimizer, scheduler, grad_scaler) ==
    IF scheduler /\ ~grad_scaler
    THEN [error |-> TRUE, model |-> model, epoch |-> ep, keys |-> {}]
    ELSE [error |-> FALSE, model |-> model, epoch |-> ep,
          keys |-> {"epoch", "state_dict"}
                   \cup (IF optimizer THEN {"optimizer"} ELSE {})
                   \cup (IF scheduler THEN {"scheduler"} ELSE {})
                   \cup (IF scheduler THEN {"grad_scaler"} ELSE {})]

Log(e) == [events EXCEPT !.log = events.log \o e]

\* Trainer.__init__ (start_epoch = 0): no method of the Trainer is running
InitTrainer(cfg) ==
    /\ tcfg = cfg
    /\ epoch = 0
    /\ batch_idx = 0
    /\ tpc = "built"
    /\ gradBuf = <<>>
    /\ accLoss = 0
    /\ totalLoss = 0
    /\ optSteps = [n |-> 0, grads |-> <<>>]
    /\ schedSteps = 0
    /\ events = NoEvents
    /\ saved = <<>>

\* trainer.train() is called: for epoch in range(self.start_epoch, self.num_epochs)
TrainBegin ==
    /\ tpc = "built"
    /\ tpc' = IF epoch < tcfg.num_epochs THEN "fetch" ELSE "done"
    /\ UNCHANGED <<tcfg, epoch, batch_idx, gradBuf, accLoss, totalLoss, optSteps,
                   schedSteps, events, saved>>
    /\ UNCHANGED <<emaVars, diffVars, callVars>>

\* enumerate(pbar) yields the next batch
TrainNextBatch ==
    /\ tpc = "fetch"
    /\ batch_idx < tcfg.nbatches
    /\ tpc' = "forward"
    /\ events' = [epoch |-> epoch, batch |-> batch_idx, log |-> <<>>]
    /\ saved' = <<>>
    /\ UNCHANGED <<tcfg, epoch, batch_idx, gradBuf, accLoss, totalLoss, optSteps, schedSteps>>
    /\ UNCHANGED <<emaVars, diffVars, callVars>>

\* the loader is exhausted: scheduler.step(), then the next epoch resets the
\* two loss accumulators (and nothing else) or train returns
TrainEpochEnd ==
    /\ tpc = "fetch"
    /\ batch_idx = tcfg.nbatches
    /\ schedSteps' = schedSteps + 1
    /\ epoch' = epoch + 1
    /\ IF epoch + 1 < tcfg.num_epochs
       THEN tpc' = "fetch" /\ batch_idx' = 0 /\ accLoss' = 0 /\ totalLoss' = 0
       ELSE tpc' = "done" /\ UNCHANGED <<batch_idx, accLoss, totalLoss>>
    /\ events' = NoEvents
    /\ saved' = <<>>
    /\ UNCHANGED <<tcfg, gradBuf, optSteps>>
    /\ UNCHANGED <<emaVars, diffVars, callVars>>

\* the head of the loop over the batches of an epoch
TrainFetch == IF batch_idx < tcfg.nbatches THEN TrainNextBatch ELSE TrainEpochEnd

\* sample_timesteps (which must have a range to draw from), q_sample, the
\* forward pass in training mode on a batch the network accepts (which
\* rewrites the BatchNorm statistics), the loss and backward()
TrainForward ==
    /\ tpc = "forward"
    /\ sample_timesteps(diffusion.noise_steps, 1).ok
    /\ \E f \in [Entries \ ParamIdx -> WeightValues] : DoForwardBuffers(f)
    /\ accLoss' = accLoss + 1
    /\ gradBuf' = Append(gradBuf, <<epoch, batch_idx>>)
    /\ events' = Log(<<"forward", "backward">>)
    /\ tpc' = "accumulate"
    /\ UNCHANGED <<tcfg, epoch, batch_idx, totalLoss, optSteps, schedSteps, saved>>
    /\ UNCHANGED <<emaStep, emaCalls, stepStartEma, diffVars, callVars>>

\* sample_timesteps or the forward pass raises and the exception ends
\* train; in the forward pass the BatchNorm3d layers before the one that
\* raised have rewritten their running statistics
TrainForwardRaise ==
    /\ tpc = "forward"
    /\ tpc' = "crashed_forward"
    /\ \/ UNCHANGED emaVars
       \/ /\ sample_timesteps(diffusion.noise_steps, 1).ok
          /\ \E f \in [Entries \ ParamIdx -> WeightValues] : DoForwardBuffers(f)
          /\ UNCHANGED <<emaStep, emaCalls, stepStartEma>>
    /\ UNCHANGED <<tcfg, epoch, batch_idx, gradBuf, accLoss, totalLoss, optSteps,
                   schedSteps, events, saved>>
    /\ UNCHANGED <<diffVars, callVars>>

\* the accumulation boundary: grad_scaler.step(optimizer), update(),
\* zero_grad(set_to_none=True), ema_step with the default step_start_ema,
\* total_loss and the reset of accumulated_minibatch_loss
TrainAccumulate ==
    /\ tpc = "accumulate"
    /\ IsAccumulationBoundary(batch_idx, tcfg.accumulation_iters)
    /\ \E f \in [ParamIdx -> WeightValues] :
          LET w1 == optimizer_step(Weights, f)
              r == ema_step(w1, emaStep, stepStartEma)
          IN  /\ SetWeights(r.w)
              /\ emaStep' = r.step
              /\ emaCalls' = emaCalls + 1
              /\ emaHist' = [op |-> "ema", branch |-> r.branch, stepBefore |-> emaStep,
                             shadowBefore |-> ShadowVals(w1), liveAt |-> LiveVals(w1)]
    /\ optSteps' = [n |-> optSteps.n + 1, grads |-> gradBuf]
    /\ gradBuf' = <<>>
    /\ totalLoss' = totalLoss + accLoss
    /\ accLoss' = 0
    /\ events' = Log(<<"scaler_step", "scaler_update", "zero_grad", "ema_step", "loss_reset">>)
    /\ tpc' = "save"
    /\ UNCHANGED <<tcfg, epoch, batch_idx, schedSteps, saved>>
    /\ UNCHANGED <<stepStartEma, diffVars, callVars>>

\* not a boundary: the gradients and the running loss are kept
TrainNoStep ==
    /\ tpc = "accumulate"
    /\ ~IsAccumulationBoundary(batch_idx, tcfg.accumulation_iters)
    /\ tpc' = "save"
    /\ UNCHANGED <<tcfg, epoch, batch_idx, gradBuf, accLoss, totalLoss, optSteps,
                   schedSteps, events, saved>>
    /\ UNCHANGED <<emaVars, diffVars, callVars>>

\* `if not batch_idx % self.save_every` holds: self.sample calls p_sample
\* on unet_model
TrainSampleLive ==
    /\ tpc = "save"
    /\ IsSaveBatch(batch_idx, tcfg.save_every)
    /\ StartSample("live")
    /\ events' = Log(<<"sample_live">>)
    /\ tpc' = "sample_live"
    /\ UNCHANGED <<tcfg, epoch, batch_idx, gradBuf, accLoss, totalLoss, optSteps,
                   schedSteps, saved>>
    /\ UNCHANGED <<emaVars, callVars>>

\* trainer.sample() called from outside train, on a Trainer no method of
\* which is running: it calls p_sample on unet_model
TrainerSampleCall ==
    /\ tpc = "built"
    /\ StartSample("live")
    /\ tpc' = "direct_live"
    /\ UNCHANGED <<tcfg, epoch, batch_idx, gradBuf, accLoss, totalLoss, optSteps,
                   schedSteps, events, saved>>
    /\ UNCHANGED <<emaVars, callVars>>

\* the condition fails: on to the next batch
TrainNoSave ==
    /\ tpc = "save"
    /\ ~IsSaveBatch(batch_idx, tcfg.save_every)
    /\ batch_idx' = batch_idx + 1
    /\ tpc' = "fetch"
    /\ UNCHANGED <<tcfg, epoch, gradBuf, accLoss, totalLoss, optSteps, schedSteps,
                   events, saved>>
    /\ UNCHANGED <<emaVars, diffVars, callVars>>

\* the save test of line 762
TrainSaveTest ==
    IF IsSaveBatch(batch_idx, tcfg.save_every) THEN TrainSampleLive ELSE TrainNoSave

\* Trainer.sample is running, called by train or from outside
InSample == tpc \in {"sample_live", "sample_ema", "direct_live", "direct_ema"}

\* eps_model(x, t) in p_sample at timestep i: both networks of
\* Trainer.__init__ are UNet3D(), put in evaluation mode by p_sample, and
\* x = torch.randn((n, 3, img_size, img_size))
SampleEval(i) ==
    UNet3DForward(<<sample_count_default, 3, img_size_default, img_size_default>>, i, FALSE)

\* an iteration whose network evaluation returns
TrainSampleStep ==
    /\ InSample
    /\ ps.pc = "loop"
    /\ ps.k <= Len(LoopTimesteps(diffusion.noise_steps))
    /\ SampleEval(LoopTimesteps(diffusion.noise_steps)[ps.k]).ok
    /\ PSampleStep
    /\ UNCHANGED <<trainVars, emaVars, callVars>>

\* an iteration whose network evaluation raises: the exception leaves
\* p_sample, Trainer.sample and train
TrainSampleRaise ==
    /\ InSample
    /\ ps.pc = "loop"
    /\ ps.k <= Len(LoopTimesteps(diffusion.noise_steps))
    /\ ~SampleEval(LoopTimesteps(diffusion.noise_steps)[ps.k]).ok
    /\ PSampleRaise
    /\ tpc' = IF tpc \in {"sample_live", "sample_ema"} THEN "crashed_sample"
              ELSE "crashed_direct"
    /\ UNCHANGED <<tcfg, epoch, batch_idx, gradBuf, accLoss, totalLoss, optSteps,
                   schedSteps, events, saved>>
    /\ UNCHANGED <<emaVars, callVars>>

\* one iteration of the loop of p_sample inside Trainer.sample
TrainSampleIteration ==
    /\ InSample
    /\ ps.pc = "loop"
    /\ ps.k <= Len(LoopTimesteps(diffusion.noise_steps))
    /\ IF SampleEval(LoopTimesteps(diffusion.noise_steps)[ps.k]).ok
       THEN TrainSampleStep
       ELSE TrainSampleRaise

\* the loop of p_sample is over (at once when noise_steps <= 1): p_sample returns
TrainSampleEnd ==
    /\ InSample
    /\ PSampleEnd
    /\ UNCHANGED <<trainVars, emaVars, callVars>>

\* p_sample on unet_model has returned: self.sample calls it on ema_model
TrainSampleEma ==
    /\ tpc \in {"sample_live", "direct_live"}
    /\ ps.pc = "done"
    /\ StartSample("ema")
    /\ events' = IF tpc = "sample_live" THEN Log(<<"sample_ema">>) ELSE events
    /\ tpc' = IF tpc = "sample_live" THEN "sample_ema" ELSE "direct_ema"
    /\ UNCHANGED <<tcfg, epoch, batch_idx, gradBuf, accLoss, totalLoss, optSteps,
                   schedSteps, saved>>
    /\ UNCHANGED <<emaVars, callVars>>

\* p_sample on ema_model has returned to the self.sample that train called:
\* both grids are saved, then save_checkpoint of unet_model with its three
\* collaborators and save_checkpoint of ema_model with none
TrainCheckpoint ==
    /\ tpc = "sample_ema"
    /\ ps.pc = "done"
    /\ LET live == save_checkpoint(epoch, "live", TRUE, TRUE, TRUE)
           ema == save_checkpoint(epoch, "ema", FALSE, FALSE, FALSE)
       IN  IF live.error
           THEN /\ tpc' = "crashed_save"
                /\ UNCHANGED <<batch_idx, events, saved>>
           ELSE IF ema.error
           THEN /\ tpc' = "crashed_save"
                /\ events' = Log(<<"save_images", "ckpt_live">>)
                /\ saved' = <<live>>
                /\ UNCHANGED batch_idx
           ELSE /\ tpc' = "fetch"
                /\ events' = Log(<<"save_images", "ckpt_live", "ckpt_ema">>)
                /\ saved' = <<live, ema>>
                /\ batch_idx' = batch_idx + 1
    /\ ps' = NoSample
    /\ UNCHANGED <<tcfg, epoch, gradBuf, accLoss, totalLoss, optSteps, schedSteps>>
    /\ UNCHANGED <<emaVars, diffusion, training, gradEnabled, callVars>>

\* p_sample on ema_model has returned to a self.sample called from outside:
\* both grids are saved and the call returns
TrainerSampleReturn ==
    /\ tpc = "direct_ema"
    /\ ps.pc = "done"
    /\ tpc' = "built"
    /\ ps' = NoSample
    /\ UNCHANGED <<tcfg, epoch, batch_idx, gradBuf, accLoss, totalLoss, optSteps,
                   schedSteps, events, saved>>
    /\ UNCHANGED <<emaVars, diffusion, training, gradEnabled, callVars>>

\* the end of Trainer.sample, back to its caller
TrainSampleDone == IF tpc = "sample_ema" THEN TrainCheckpoint ELSE TrainerSampleReturn

vars == <<emaVars, diffVars, callVars, trainVars>>

\* no training loop is running
NoTrainer ==
    InitTrainer([num_epochs |-> 0, nbatches |-> 0, accumulation_iters |-> 1, save_every |-> 1])

(* ---- the EMA tracker driven by arbitrary optimizer steps and calls ---- *)
InitEMA ==
    /\ \E f \in [Entries -> WeightValues], sse \in 0 .. MaxWarmup : InitWeights(f, sse)
    /\ diffusion = NoDiffusion
    /\ InitModes
    /\ unet = NoCall
    /\ NoOtherCalls
    /\ NoTrainer

EmaStepCall ==
    /\ emaStep < MaxEmaCalls
    /\ DoEmaStep(stepStartEma)
    /\ UNCHANGED <<stepStartEma, diffVars, callVars, trainVars>>

OptimizerStep ==
    /\ \E f \in [ParamIdx -> WeightValues] : DoOptimizerStep(f)
    /\ UNCHANGED <<emaStep, emaCalls, stepStartEma, diffVars, callVars, trainVars>>

ForwardPass ==
    /\ \E f \in [Entries \ ParamIdx -> WeightValues] : DoForwardBuffers(f)
    /\ UNCHANGED <<emaStep, emaCalls, stepStartEma, diffVars, callVars, trainVars>>

NextEMA == EmaStepCall \/ OptimizerStep \/ ForwardPass

SpecEMA == InitEMA /\ [][NextEMA]_vars

(* ------- one p_sample call on a network that may raise at any step ----- *)
InitSample ==
    /\ InitWeights([e \in Entries |-> 0], step_start_ema_default)
    /\ \E ns \in 0 .. MaxNoiseSteps :
          diffusion = DiffusionInit(ns, beta_start_default, beta_end_default)
    /\ InitModes
    /\ unet = NoCall
    /\ NoOtherCalls
    /\ NoTrainer

SampleCall == (\E m \in Models : PSampleBegin(m)) /\ UNCHANGED <<emaVars, callVars, trainVars>>
SampleStep == PSampleStep /\ UNCHANGED <<emaVars, callVars, trainVars>>
SampleRaise == PSampleRaise /\ UNCHANGED <<emaVars, callVars, trainVars>>
SampleEnd == PSampleEnd /\ UNCHANGED <<emaVars, callVars, trainVars>>

NextSample == SampleCall \/ SampleStep \/ SampleRaise \/ SampleEnd

SpecSample == InitSample /\ [][NextSample]_vars

(* ------------- construction of the noise schedule (Diffusion) ---------- *)
InitSchedule ==
    /\ InitWeights([e \in Entries |-> 0], step_start_ema_default)
    /\ diffusion = NoDiffusion
    /\ InitModes
    /\ unet = NoCall
    /\ NoOtherCalls
    /\ NoTrainer

\* Diffusion(device, img_size, noise_steps, beta_start, beta_end)
Construct ==
    /\ diffusion.status = "none"
    /\ \E ns \in -1 .. MaxNoiseSteps, bs \in BetaChoices, be \in BetaChoices :
          diffusion' = DiffusionInit(ns, bs, be)
    /\ UNCHANGED <<emaVars, training, gradEnabled, ps, callVars, trainVars>>

NextSchedule == Construct \/ SampleCall \/ SampleStep \/ SampleRaise \/ SampleEnd

SpecSchedule == InitSchedule /\ [][NextSchedule]_vars

(* --------------- one forward pass of UNet3D() on any input ------------- *)
\* Trainer.__init__ default: noise_steps, the bound of the timesteps train draws
trainer_noise_steps_default == 500

\* the timesteps tried: the ends of the embedding buffer's first dimension,
\* the timestep of Tester.test_unet, the largest timestep a default Trainer
\* draws and the ends of [0, noise_steps)
TimestepChoices ==
    {0, 1, time_dim_default - 1, time_dim_default, test_timestep,
     trainer_noise_steps_default - 1, unet_noise_steps_default - 1}

\* 5-D inputs [batch, channels, depth, height, width], and the 4-D inputs
\* [batch, channels, height, width] that Tester.test_unet and p_sample build
InputShapes ==
    {<<b, c, d, h, w>> : b \in 1 .. MaxBatch, c \in {1, in_channels_default},
                         d \in {7, 8, MaxDim}, h \in 7 .. MaxDim, w \in {8, 12, MaxDim - 1}}
    \cup {<<b, in_channels_default, h, h>> : b \in 1 .. MaxBatch, h \in {8, img_size_default}}

\* the call finds the networks as Trainer.__init__ left them, or with
\* ema_model in the training mode that a p_sample call on it leaves behind
InitUNet ==
    /\ InitWeights([e \in Entries |-> 0], step_start_ema_default)
    /\ diffusion = NoDiffusion
    /\ \E ema_training \in BOOLEAN :
          training = [m \in Models |-> m = "live" \/ ema_training]
    /\ gradEnabled = TRUE
    /\ ps = NoSample
    /\ \E m \in Models, x \in InputShapes, t \in TimestepChoices :
          unet = [NoCall EXCEPT !.model = m, !.x = x, !.t = t]
    /\ NoOtherCalls
    /\ NoTrainer

\* unet_model(x, t) or ema_model(x, t), in the mode the network is in; a
\* network in training mode has the BatchNorm3d layers it gets through
\* rewrite their (its own) running statistics, also when a later layer raises
Forward ==
    /\ ~unet.called
    /\ LET out == UNet3DForward(unet.x, unet.t, training[unet.model])
       IN  /\ unet' = [unet EXCEPT !.called = TRUE, !.out = out,
                                   !.emb = UNet3DPosEncoding(unet.x[1], unet.t)]
           /\ IF out.bn > 0
              THEN /\ \E f \in [Entries \ ParamIdx -> WeightValues] :
                         IF unet.model = "live" THEN DoForwardBuffers(f)
                         ELSE DoForwardBuffersEma(f)
                   /\ UNCHANGED <<emaStep, emaCalls, stepStartEma>>
              ELSE UNCHANGED emaVars
    /\ UNCHANGED <<diffVars, trainVars, ckpt, qs, twin>>

NextUNet == Forward

SpecUNet == InitUNet /\ [][NextUNet]_vars

(* ------------------------- Trainer(...).train() ------------------------ *)
TrainerConfigs ==
    [num_epochs : 1 .. MaxEpochs, nbatches : 1 .. MaxBatches,
     accumulation_iters : 1 .. MaxAccum, save_every : 1 .. MaxSaveEvery]

\* Trainer(..., noise_steps, num_epochs, accumulation_iters, save_every) on
\* a dataset of nbatches batches; with noise_steps = 1 the loop of p_sample
\* is empty and sample_timesteps has nothing to draw
InitTrain ==
    /\ InitWeights([e \in Entries |-> 0], step_start_ema_default)
    /\ \E ns \in 1 .. MaxNoiseSteps :
          diffusion = DiffusionInit(ns, beta_start_default, beta_end_default)
    /\ InitModes
    /\ unet = NoCall
    /\ NoOtherCalls
    /\ \E cfg \in TrainerConfigs : InitTrainer(cfg)

\* a Trainer on which sample() and then train() are called; every network
\* evaluation inside Trainer.sample raises (p_sample hands UNet3D a 4-D x),
\* so train ends at its first save point, batch 0 of its first epoch
NextTrain ==
    \/ TrainerSampleCall \/ TrainBegin \/ TrainFetch
    \/ TrainForward \/ TrainForwardRaise \/ TrainAccumulate \/ TrainNoStep
    \/ TrainSaveTest \/ TrainSampleIteration \/ TrainSampleEnd
    \/ TrainSampleEma \/ TrainSampleDone

SpecTrain == InitTrain /\ [][NextTrain]_vars

(* ------------- Utils.save_checkpoint and Utils.load_checkpoint --------- *)
\* the key under which an object's state_dict() is stored is its own name
\* (the network's is "state_dict"); what torch.save writes for a dictionary
\* with the keys of r, taken from the objects' states
WriteFile(r, objs) ==
    [exists |-> TRUE, keys |-> r.keys, epoch |-> r.epoch,
     state |-> [k \in StateKeys |-> IF k \in r.keys THEN objs[k] ELSE 0]]

\* one `if "<k>" in checkpoint: <k>.load_state_dict(checkpoint["<k>"])` of
\* load_checkpoint, on the outcome s of the statements before it; an absent
\* collaborator is None and has no load_state_dict
LoadOptional(file, supplied, s, k) ==
    IF s.error # "none" \/ k \notin file.keys THEN s
    ELSE IF ~supplied[k] THEN [s EXCEPT !.error = "AttributeError"]
    ELSE [s EXCEPT !.objs[k] = file.state[k]]

\* a bug that resets every collaborator whose field is missing
load_checkpoint_reset(file, objs, supplied) ==
    IF ~file.exists THEN [error |-> "FileNotFoundError", objs |-> objs, epoch |-> -1]
    ELSE IF ~(RequiredKeys \subseteq file.keys)
    THEN [error |-> "KeyError", objs |-> objs, epoch |-> -1]
    ELSE [error |-> "none", objs |-> file.state, epoch |-> file.epoch]

\* Utils.load_checkpoint: torch.load, model.load_state_dict(strict=False),
\* the three optional loads in order, then `return checkpoint["epoch"]`
load_checkpoint(file, objs, supplied) ==
    IF ~file.exists THEN [error |-> "FileNotFoundError", objs |-> objs, epoch |-> -1]
    ELSE IF "state_dict" \notin file.keys
    THEN [error |-> "KeyError", objs |-> objs, epoch |-> -1]
    ELSE
        LET s0 == [error |-> "none",
                   objs |-> [objs EXCEPT !["state_dict"] = file.state["state_dict"]]]
            s1 == LoadOptional(file, supplied, s0, "optimizer")
            s2 == LoadOptional(file, supplied, s1, "scheduler")
            s3 == LoadOptional(file, supplied, s2, "grad_scaler")
        IN  IF s3.error # "none"
            THEN [error |-> s3.error, objs |-> s3.objs, epoch |-> -1]
            ELSE IF "epoch" \notin file.keys
            THEN [error |-> "KeyError", objs |-> s3.objs, epoch |-> -1]
            ELSE [error |-> "none", objs |-> s3.objs, epoch |-> file.epoch]

\* the dictionaries torch.load can return: any keys, written by an earlier
\* run at its last epoch with the state 1 in every object
FoundFiles ==
    {[exists |-> TRUE, keys |-> ks,
      epoch |-> IF "epoch" \in ks THEN MaxEpochs ELSE 0,
      state |-> [k \in StateKeys |-> IF k \in ks THEN 1 ELSE 0]] :
        ks \in SUBSET (RequiredKeys \cup OptionalKeys)}

InitCheckpoint ==
    /\ InitWeights([e \in Entries |-> 0], step_start_ema_default)
    /\ diffusion = NoDiffusion
    /\ InitModes
    /\ unet = NoCall
    /\ qs = NoNoising
    /\ twin = NoSample
    /\ NoTrainer
    /\ \E file \in {NoFile} \cup FoundFiles, objs \in [StateKeys -> WeightValues] :
          ckpt = [NoCheckpoint EXCEPT !.file = file, !.objs = objs]

\* Utils.save_checkpoint(epoch, model, filename, optimizer, scheduler,
\* grad_scaler) with any of the three collaborators left at None; when it
\* raises, torch.save is not reached
SaveCheckpoint ==
    /\ \E ep \in 0 .. MaxEpochs, args \in [OptionalKeys -> BOOLEAN] :
          LET r == save_checkpoint(ep, "live", args["optimizer"], args["scheduler"],
                                   args["grad_scaler"])
          IN  ckpt' = [ckpt EXCEPT
                  !.file = IF r.error THEN ckpt.file ELSE WriteFile(r, ckpt.objs),
                  !.call = [op |-> "save", args |-> args, ep |-> ep,
                            error |-> IF r.error THEN "AttributeError" ELSE "none",
                            returned |-> -1, before |-> ckpt.objs]]
    /\ UNCHANGED <<emaVars, diffVars, trainVars, unet, qs, twin>>

\* Utils.load_checkpoint(model, filename, optimizer, scheduler, grad_scaler)
LoadCheckpoint ==
    /\ \E args \in [OptionalKeys -> BOOLEAN] :
          LET r == load_checkpoint(ckpt.file, ckpt.objs, args)
          IN  ckpt' = [ckpt EXCEPT
                  !.objs = r.objs,
                  !.call = [op |-> "load", args |-> args, ep |-> 0,
                            error |-> r.error, returned |-> r.epoch,
                            before |-> ckpt.objs]]
    /\ UNCHANGED <<emaVars, diffVars, trainVars, unet, qs, twin>>

NextCheckpoint == SaveCheckpoint \/ LoadCheckpoint

SpecCheckpoint == InitCheckpoint /\ [][NextCheckpoint]_vars

(* ---------------- Diffusion.sample_timesteps and q_sample -------------- *)
\* the values of one element of a training batch, scaled to [-1, 1]
PixelValues == {-FP, FP}

\* tensor[t] for a tensor of length n: negative indices count from the end,
\* an index outside [-n, n) raises IndexError
IndexOk(t, n) == -n <= t /\ t < n
IndexAt(tensor, t) == tensor[(IF t < 0 THEN t + Len(tensor) ELSE t) + 1]

\* q_sample(x, t) with the draw epsilon of torch.randn_like:
\* sqrt_alpha_hat[t] * x + sqrt_one_minus_alpha_hat[t] * epsilon
q_sample(d, x, t, epsilon) ==
    IF \E b \in DOMAIN t : ~IndexOk(t[b], Len(d.sqrt_alpha_hat))
                           \/ ~IndexOk(t[b], Len(d.sqrt_one_minus_alpha_hat))
    THEN [ok |-> FALSE, x_t |-> <<>>]
    ELSE [ok |-> TRUE,
          x_t |-> [b \in DOMAIN x |->
                      (IndexAt(d.sqrt_alpha_hat, t[b]) * x[b]) \div FP
                      + (IndexAt(d.sqrt_one_minus_alpha_hat, t[b]) * epsilon[b]) \div FP]]

InitNoising ==
    /\ InitWeights([e \in Entries |-> 0], step_start_ema_default)
    /\ \E ns \in 0 .. MaxNoiseSteps :
          diffusion = DiffusionInit(ns, beta_start_default, beta_end_default)
    /\ InitModes
    /\ unet = NoCall
    /\ NoOtherCalls
    /\ NoTrainer

\* t = self.diffusion.sample_timesteps(batch_size=current_batch_size)
DrawTimesteps ==
    /\ qs.pc = "idle"
    /\ diffusion.status = "built"
    /\ \E batch_size \in 1 .. MaxBatch :
          LET r == sample_timesteps(diffusion.noise_steps, batch_size)
          IN  IF r.ok
              THEN \E t \in r.draws :
                      qs' = [qs EXCEPT !.pc = "drawn", !.batch_size = batch_size, !.t = t]
              ELSE qs' = [qs EXCEPT !.pc = "draw_raised", !.batch_size = batch_size]
    /\ UNCHANGED <<emaVars, diffVars, trainVars, unet, ckpt, twin>>

\* x_t, noise = self.diffusion.q_sample(x=real_images, t=t)
QSample ==
    /\ qs.pc = "drawn"
    /\ \E x \in [1 .. qs.batch_size -> PixelValues],
          epsilon \in [1 .. qs.batch_size -> NoiseDraws] :
          LET r == q_sample(diffusion, x, qs.t, epsilon)
          IN  qs' = [qs EXCEPT !.pc = IF r.ok THEN "noised" ELSE "index_error",
                               !.x = x, !.epsilon = epsilon, !.x_t = r.x_t]
    /\ UNCHANGED <<emaVars, diffVars, trainVars, unet, ckpt, twin>>

NextNoising == DrawTimesteps \/ QSample

SpecNoising == InitNoising /\ [][NextNoising]_vars

(* ---- two p_sample calls in a row on a network that predicts zero ---- *)
\* what eps_model(x, t) returns in both runs
ZeroPred == {0}

InitTwin ==
    /\ InitWeights([e \in Entries |-> 0], step_start_ema_default)
    /\ \E ns \in 1 .. MaxNoiseSteps :
          diffusion = DiffusionInit(ns, beta_start_default, beta_end_default)
    /\ InitModes
    /\ unet = NoCall
    /\ NoOtherCalls
    /\ NoTrainer

\* the first call p_sample(eps_model, n=1): eval(), no_grad, x = randn
TwinFirstCall ==
    /\ ps.pc = "idle"
    /\ twin.pc = "idle"
    /\ \E m \in Models : StartSample(m)
    /\ UNCHANGED <<emaVars, trainVars, callVars>>

\* one iteration of the first call
TwinStepFirst ==
    /\ PSampleStepWith(ZeroPred)
    /\ UNCHANGED <<emaVars, trainVars, callVars>>

\* the first call leaves the loop and returns
TwinEndFirst ==
    /\ PSampleEnd
    /\ UNCHANGED <<emaVars, trainVars, callVars>>

\* the second call, on the same network: eval(), no_grad, and torch.randn
\* hands it the initial x of the first call
TwinSecondCall ==
    /\ ps.pc = "done"
    /\ twin.pc = "idle"
    /\ twin' = [NoSample EXCEPT !.pc = "loop", !.model = ps.model, !.k = 1,
                                !.x0 = ps.x0, !.x = ps.x0]
    /\ training' = [training EXCEPT ![ps.model] = FALSE]
    /\ gradEnabled' = FALSE
    /\ UNCHANGED <<emaVars, diffusion, ps, trainVars, unet, ckpt, qs>>

\* one iteration of the second call, with a draw of its own
TwinStepSecond ==
    /\ twin.pc = "loop"
    /\ twin.k <= Len(LoopTimesteps(diffusion.noise_steps))
    /\ \E pred \in ZeroPred, draw \in NoiseDraws : twin' = LoopBody(twin, pred, draw)
    /\ UNCHANGED <<emaVars, diffVars, trainVars, unet, ckpt, qs>>

\* the second call leaves the loop and returns: leave torch.no_grad(),
\* eps_model.train(), clamp and scale
TwinEndSecond ==
    /\ twin.pc = "loop"
    /\ twin.k > Len(LoopTimesteps(diffusion.noise_steps))
    /\ twin' = [twin EXCEPT !.pc = "done",
                            !.images = ToImages(twin.x, scale_factor_default)]
    /\ training' = [training EXCEPT ![twin.model] = TRUE]
    /\ gradEnabled' = TRUE
    /\ UNCHANGED <<emaVars, diffusion, ps, trainVars, unet, ckpt, qs>>

NextTwin ==
    \/ TwinFirstCall \/ TwinStepFirst \/ TwinEndFirst
    \/ TwinSecondCall \/ TwinStepSecond \/ TwinEndSecond

SpecTwin == InitTwin /\ [][NextTwin]_vars

(* ======================= claims on the EMA tracker ===================== *)
EmaBeta == Rat(BetaNum, BetaDen)
OneMinusEmaBeta == Rat(BetaDen - BetaNum, BetaDen)

\* C2: every ema_step call made while the counter is below step_start_ema
\* (the k-th call, k <= step_start_ema) leaves each shadow parameter equal to
\* the live parameter at the time of the call: a verbatim copy, not a blend.
C2_WarmStartCopies ==
    (emaHist.op = "ema" /\ emaStep <= stepStartEma) =>
        /\ emaHist.branch = "copy"
        /\ \A p \in ParamIdx : ShadowVal(Weights, p) = emaHist.liveAt[p]
        /\ \A p \in ParamIdx : ShadowVal(Weights, p) = LiveVal(Weights, p)

\* a warm-start call was made after the live weights had moved away from the
\* shadow weights, and the counter has reached the threshold
C2_Witness ==
    /\ emaHist.op = "ema"
    /\ emaStep = stepStartEma
    /\ emaStep >= 2
    /\ \E p \in ParamIdx : emaHist.shadowBefore[p] # emaHist.liveAt[p]

\* C3: every ema_step call made when the counter is >= step_start_ema sets
\* each shadow parameter p to beta * shadow_before[p] + (1 - beta) * live[p],
\* pairing shadow and live parameters in the same order and skipping none.
C3_BlendArithmetic ==
    (emaHist.op = "ema" /\ emaHist.stepBefore >= stepStartEma) =>
        /\ emaHist.branch = "blend"
        /\ \A p \in ParamIdx :
              ShadowVal(Weights, p) =
                  RatAdd(RatMul(EmaBeta, emaHist.shadowBefore[p]),
                         RatMul(OneMinusEmaBeta, emaHist.liveAt[p]))

\* a blend call on a model whose parameters differ from one another and from
\* their shadows
C3_Witness ==
    /\ emaHist.op = "ema"
    /\ emaHist.stepBefore >= stepStartEma
    /\ emaHist.stepBefore >= 1
    /\ \A p \in ParamIdx : emaHist.shadowBefore[p] # emaHist.liveAt[p]
    /\ \E p, q \in ParamIdx : emaHist.liveAt[p] # emaHist.liveAt[q]

\* C4: the EMA counter starts at 0 and equals the number of ema_step calls
\* made; each call, on either branch, raises it by exactly one.
C4_CounterCountsCalls ==
    /\ emaStep = emaCalls
    /\ emaHist.op = "none" => emaStep = 0
    /\ emaHist.op = "ema" => emaStep = emaHist.stepBefore + 1

\* both branches have been taken: the last call blended, earlier ones copied
C4_Witness ==
    /\ emaHist.op = "ema"
    /\ emaHist.branch = "blend"
    /\ stepStartEma >= 1
    /\ emaCalls = MaxEmaCalls

NoAlias(w) == \A p, q \in Entries : w.shadowData[p] # w.liveData[q]

\* C5: no shadow tensor is a live tensor, after construction and after every
\* step; a step that changes a live
\* parameter (an optimizer step) changes no shadow parameter and is not an
\* ema_step, and an ema_step changes no live parameter.
C5_ShadowNeverAliasesLive ==
    /\ NoAlias(Weights)
    /\ [][ /\ NoAlias(Weights)'
           /\ (LiveVals(Weights)' # LiveVals(Weights)) =>
                  (ShadowVals(Weights)' = ShadowVals(Weights) /\ emaStep' = emaStep)
           /\ (emaStep' # emaStep) => (LiveVals(Weights)' = LiveVals(Weights)) ]_vars

\* an optimizer step after a blend: live and shadow differ in every parameter
C5_Witness ==
    /\ emaHist.op = "opt"
    /\ emaStep > stepStartEma
    /\ emaHist.liveAt # LiveVals(Weights)
    /\ \A p \in ParamIdx : ShadowVal(Weights, p) # LiveVal(Weights, p)

(* ===================== claims on reverse sampling ====================== *)
\* C6: when a network evaluation raises inside the sampling loop, the
\* network is back in training mode when the exception leaves p_sample
\* (stated for the live network, which was in training mode on entry).
C6_TrainingModeRestoredOnError ==
    (ps.pc = "raised" /\ ps.model = "live") => training["live"] = TRUE

\* C7: for noise_steps >= 2 the network is evaluated at noise_steps - 1,
\* noise_steps - 2, ..., 1 in this order, once each and never at 0; each
\* evaluation gets the x the previous step produced (the first one the
\* initial noise); the noise added is a random draw at every step with
\* i > 1 and zero at i = 1.
C7_DescendingTimesteps ==
    (ps.pc # "idle" /\ diffusion.noise_steps >= 2) =>
        LET ns == diffusion.noise_steps
            ev == ps.evals
        IN  /\ Len(ev) <= ns - 1
            /\ \A k \in 1 .. Len(ev) :
                  /\ ev[k].t = ns - k
                  /\ ev[k].t >= 1
                  /\ ev[k].x_in = IF k = 1 THEN ps.x0 ELSE ev[k - 1].x_out
                  /\ (~ev[k].raised /\ ev[k].t > 1) =>
                        (ev[k].noise_src = "randn" /\ ev[k].noise \in NoiseDraws)
                  /\ (~ev[k].raised /\ ev[k].t = 1) =>
                        (ev[k].noise_src = "zeros" /\ ev[k].noise = 0)
                  /\ ev[k].raised => (k = Len(ev) /\ ps.pc = "raised")
            /\ ps.pc = "done" => Len(ev) = ns - 1
            /\ ps.pc = "loop" => Len(ev) = ps.k - 1

\* a completed call over the longest schedule, with different draws at
\* different steps and a last step that changed x without noise
C7_Witness ==
    /\ ps.pc = "done"
    /\ diffusion.noise_steps = MaxNoiseSteps
    /\ Len(ps.evals) = MaxNoiseSteps - 1
    /\ ps.evals[1].noise # ps.evals[2].noise
    /\ ps.evals[Len(ps.evals)].t = 1
    /\ ps.evals[Len(ps.evals)].x_out # ps.evals[Len(ps.evals)].x_in

(* ===================== claims on the noise schedule ==================== *)
\* C10: constructing a Diffusion with noise_steps <= 0 or with
\* beta_start >= beta_end fails: whenever a schedule object exists, it was
\* built from noise_steps > 0 and beta_start < beta_end.
C10_InvalidScheduleRejected ==
    diffusion.status = "built" =>
        (diffusion.noise_steps > 0 /\ diffusion.beta_start < diffusion.beta_end)

(* ========================= claims on the network ======================= *)
SupportedInput(x) ==
    /\ Len(x) = 5
    /\ x[2] = in_channels_default
    /\ \A a \in 3 .. 5 : x[a] >= 8

\* C8: for every 5-D input with depth, height and width of at least 8, and
\* every timestep of the schedule, UNet3D.forward returns a tensor of
\* exactly the input's shape.
C8_ForwardPreservesShape ==
    (unet.called /\ SupportedInput(unet.x)
        /\ unet.t \in 0 .. (unet_noise_steps_default - 1)) =>
        (unet.out.ok /\ unet.out.shape = unet.x)

\* BatchNorm3d's input at the bottom of the encoder has one value per channel
OneValueAtBottom(x) == x[1] * (x[3] \div 8) * (x[4] \div 8) * (x[5] \div 8) = 1

\* the shape algebra alone: with the timestep inside the embedding buffer's
\* first dimension, every supported input comes back with its own shape,
\* unless the network is in training mode and the bottom of the encoder is
\* left with one value per channel; then down3 raises after the six
\* BatchNorm3d layers above it have run
UNetShapeAlgebra ==
    (unet.called /\ SupportedInput(unet.x) /\ unet.t \in 0 .. (time_dim_default - 1)) =>
        IF training[unet.model] /\ OneValueAtBottom(unet.x)
        THEN ~unet.out.ok /\ unet.out.bn = 6
        ELSE unet.out.ok /\ unet.out.shape = unet.x

(* ====================== claims on the training loop ==================== *)
AccumulateOps == <<"scaler_step", "scaler_update", "zero_grad", "ema_step", "loss_reset">>
SaveOps == <<"sample_live", "sample_ema", "save_images", "ckpt_live", "ckpt_ema">>
InSeq(e, sq) == \E k \in 1 .. Len(sq) : sq[k] = e
IsAccumulateOp(e) == InSeq(e, AccumulateOps)
IsSaveOp(e) == InSeq(e, SaveOps)
IsPrefix(a, b) == Len(a) <= Len(b) /\ a = SubSeq(b, 1, Len(a))

\* the current batch has passed the accumulation test of line 737
PastAccumulate ==
    /\ events.batch >= 0
    /\ tpc \in {"save", "sample_live", "sample_ema", "crashed_sample", "fetch", "done"}

\* the current batch has run to its end
BatchCompleted == events.batch >= 0 /\ tpc \in {"fetch", "done"}

\* C1: in every batch, the optimizer step, the gradient clear, the EMA step
\* and the reset of the running loss happen, in this order, exactly when
\* (batch_idx + 1) is a multiple of accumulation_iters, and none of them
\* happens in any other batch; the EMA step sees the weights the optimizer
\* step wrote, and there are as many EMA steps as optimizer steps.
C1_StepOnAccumulationBoundary ==
    LET done == SelectSeq(events.log, IsAccumulateOp)
        boundary == (events.batch + 1) % tcfg.accumulation_iters = 0
    IN  /\ emaCalls = optSteps.n
        /\ emaStep = optSteps.n
        /\ ~PastAccumulate => done = <<>>
        /\ (PastAccumulate /\ ~boundary) =>
              /\ done = <<>>
              /\ accLoss > 0
              /\ gradBuf # <<>>
        /\ (PastAccumulate /\ boundary) =>
              /\ done = AccumulateOps
              /\ accLoss = 0
              /\ gradBuf = <<>>
              /\ optSteps.grads # <<>>
              /\ emaHist.op = "ema"
              /\ emaHist.liveAt = LiveVals(Weights)

\* a batch that is a boundary has made the four operations, the optimizer
\* step has written a weight and the EMA step has seen it
C1_Witness ==
    /\ PastAccumulate
    /\ events.batch = 0
    /\ tcfg.accumulation_iters = 1
    /\ SelectSeq(events.log, IsAccumulateOp) = AccumulateOps
    /\ optSteps.n = 1
    /\ emaCalls = 1
    /\ \E p \in ParamIdx : LiveVal(Weights, p) # Zero

C11_SaveRecordsSuppliedCollaborators ==
    ckpt.call.op = "save" =>
        /\ ckpt.call.error = "none"
        /\ ckpt.file.exists
        /\ RequiredKeys \subseteq ckpt.file.keys
        /\ ckpt.file.epoch = ckpt.call.ep
        /\ ckpt.file.state["state_dict"] = ckpt.objs["state_dict"]
        /\ \A k \in OptionalKeys :
              /\ (k \in ckpt.file.keys) <=> ckpt.call.args[k]
              /\ (k \in ckpt.file.keys) => ckpt.file.state[k] = ckpt.objs[k]

\* the optional fields of the file at hand are all backed by a collaborator
\* passed to the call
FieldsHaveCollaborators ==
    \A k \in OptionalKeys \cap ckpt.file.keys : ckpt.call.args[k]

\* what C12 promises of the load just made, on the file at hand
LoadedOrRejected ==
    IF RequiredKeys \subseteq ckpt.file.keys
    THEN /\ ckpt.call.error = "none"
         /\ ckpt.call.returned = ckpt.file.epoch
         /\ ckpt.objs["state_dict"] = ckpt.file.state["state_dict"]
         /\ \A k \in OptionalKeys :
               ckpt.objs[k] = IF k \in ckpt.file.keys THEN ckpt.file.state[k]
                              ELSE ckpt.call.before[k]
    ELSE ckpt.call.error = "KeyError" /\ ckpt.call.returned = -1

\* C12, as stated: load_checkpoint on a file that holds epoch and the
\* weights succeeds whichever optional fields are missing, returns the
\* stored epoch and leaves the collaborators of the missing fields as they
\* were, whatever collaborators the caller passes; on a file without epoch
\* or without the weights it raises.
C12_LoadSucceedsOnRequiredFields ==
    (ckpt.call.op = "load" /\ ckpt.file.exists) => LoadedOrRejected

\* C12, amended: the same, for the calls that pass a collaborator for every
\* optional field the file holds (a field that is present while its
\* collaborator is None raises AttributeError instead).
C12_LoadSkipsMissingFields ==
    (ckpt.call.op = "load" /\ ckpt.file.exists /\ FieldsHaveCollaborators) =>
        LoadedOrRejected

\* C12, the other half of the amendment: on a file with the weights, a
\* field that is present while its collaborator was not passed makes the
\* load raise AttributeError
C12_PresentFieldNeedsCollaborator ==
    (ckpt.call.op = "load" /\ ckpt.file.exists /\ "state_dict" \in ckpt.file.keys
        /\ ~FieldsHaveCollaborators) =>
        (ckpt.call.error = "AttributeError" /\ ckpt.call.returned = -1)

\* a load that succeeded on a file with the optimizer state only, while the
\* scheduler and the scaler it skipped hold a state the file never had
C12_Witness ==
    /\ ckpt.call.op = "load"
    /\ ckpt.call.error = "none"
    /\ ckpt.file.keys = RequiredKeys \cup {"optimizer"}
    /\ ckpt.call.args = [k \in OptionalKeys |-> TRUE]
    /\ ckpt.call.returned = MaxEpochs
    /\ ckpt.call.before["optimizer"] = 0 /\ ckpt.objs["optimizer"] = 1
    /\ ckpt.call.before["scheduler"] = 1 /\ ckpt.objs["scheduler"] = 1
    /\ ckpt.call.before["grad_scaler"] = 1 /\ ckpt.objs["grad_scaler"] = 1

(* ====================== claims on the forward process ================== *)
\* C13: for every batch_size >= 1 and noise_steps >= 2, sample_timesteps
\* returns batch_size integers t with 1 <= t < noise_steps (0 and
\* noise_steps are never drawn), so each of them indexes the schedule arrays
\* of length noise_steps that q_sample reads.
C13_TimestepsIndexSchedule ==
    /\ qs.pc = "draw_raised" => diffusion.noise_steps < 2
    /\ qs.pc \in {"drawn", "noised", "index_error"} =>
          /\ diffusion.noise_steps >= 2
          /\ Len(qs.t) = qs.batch_size
          /\ \A b \in DOMAIN qs.t :
                /\ 1 <= qs.t[b] /\ qs.t[b] < diffusion.noise_steps
                /\ (qs.t[b] + 1) \in DOMAIN diffusion.sqrt_alpha_hat
                /\ (qs.t[b] + 1) \in DOMAIN diffusion.sqrt_one_minus_alpha_hat
    /\ qs.pc # "index_error"

\* a full batch drew both ends of the range and q_sample has noised it
C13_Witness ==
    /\ qs.pc = "noised"
    /\ diffusion.noise_steps = MaxNoiseSteps
    /\ qs.batch_size = MaxBatch
    /\ qs.t[1] = 1
    /\ qs.t[MaxBatch] = diffusion.noise_steps - 1
    /\ Len(qs.x_t) = MaxBatch

(* ===================== claims on the time embedding ==================== *)
\* C14: the time-embedding table has shape [noise_steps, embedding_dim] and,
\* for every timestep t with 0 <= t < noise_steps of the network, the lookup
\* succeeds and returns one embedding vector per batch element, a result of
\* shape [batch, embedding_dim]; so every timestep train draws is accepted.
C14_LookupAcceptsEveryTimestep ==
    (unet.called /\ unet.t \in 0 .. (unet_noise_steps_default - 1)) =>
        /\ UNet3DPosEncodingShape = <<unet_noise_steps_default, time_dim_default>>
        /\ unet.emb.ok
        /\ unet.emb.shape = <<unet.x[1], time_dim_default>>

\* what the lookup does instead: it accepts exactly the timesteps below
\* time_dim and returns the [max_len, embedding_dim] slab of each
PosEncodingLookup ==
    unet.called =>
        /\ UNet3DPosEncodingShape
              = <<time_dim_default, unet_noise_steps_default, time_dim_default>>
        /\ unet.emb.ok <=> unet.t < time_dim_default
        /\ unet.emb.ok =>
              unet.emb.shape = <<unet.x[1], unet_noise_steps_default, time_dim_default>>

(* ================== claims on the reverse process, two runs ============ *)
BothRunsDone == ps.pc = "done" /\ twin.pc = "done"

\* the two runs were handed the same noise at every timestep above 1
SameDrawsAboveOne ==
    /\ Len(ps.evals) = Len(twin.evals)
    /\ \A k \in DOMAIN ps.evals :
          ps.evals[k].t > 1 => ps.evals[k].noise = twin.evals[k].noise

\* C15 as stated: with a network that always predicts zero noise and one
\* image, two runs of p_sample that start from the same initial x end with
\* the same x after the noise_steps - 1 iterations, whatever random draws
\* they receive inside the loop.
C15_LoopDrawsDoNotMatter ==
    BothRunsDone => ps.x = twin.x

\* C15 amended: the final x is determined by the initial x, the schedule and
\* the noise drawn at the timesteps i > 1.  Two such runs that receive the
\* same draws at every timestep i > 1 end with the same x and the same
\* image, and with noise_steps <= 2 no draw is used, so they always do.
C15_SameDrawsSameResult ==
    /\ (BothRunsDone /\ SameDrawsAboveOne) =>
          (ps.x = twin.x /\ ps.images = twin.images)
    /\ (BothRunsDone /\ diffusion.noise_steps <= 2) => ps.x = twin.x

\* two finished runs of the longest schedule that drew the same noise
C15_Witness ==
    /\ BothRunsDone
    /\ SameDrawsAboveOne
    /\ diffusion.noise_steps = MaxNoiseSteps
    /\ Len(ps.evals) = MaxNoiseSteps - 1
    /\ \E k \in DOMAIN twin.evals : twin.evals[k].noise # 0
    /\ ps.x = twin.x

(* ============ claims on gradients and modes in Trainer.train =========== *)
\* the batches whose gradients an optimizer step at the current batch should
\* apply: the last accumulation_iters batches of the current epoch
ExpectedGrads ==
    [i \in 1 .. tcfg.accumulation_iters |->
        <<events.epoch, events.batch - tcfg.accumulation_iters + i>>]

TrainStopsAtFirstSavePoint ==
    /\ epoch = 0
    /\ batch_idx = 0
    /\ optSteps.n <= 1
    /\ tpc \notin {"sample_ema", "crashed_save", "done"}

SampleReturning == tpc \in {"sample_ema", "direct_ema"} /\ ps.pc = "done"

\* after a return of Trainer.sample or before its first call: no sample
\* call is running and no exception has ended the run
BetweenSamples == tpc \in {"built", "fetch", "forward", "accumulate", "save", "done"}

\* C17: the EMA network, created in evaluation mode, is in evaluation mode
\* whenever it is not being sampled: when Trainer.sample returns, and at
\* every training batch and checkpoint after it, the EMA network is in
\* evaluation mode and the live network in training mode.
C17_SamplingRestoresModes ==
    (SampleReturning \/ BetweenSamples) => (training["live"] /\ ~training["ema"])

====
